---- MODULE Spec2Model ----
(***************************************************************************)
(* Model of ogma's definition partitions graph                            *)
(* (ogma/src/lang/defs2/partitions.rs).                                    *)
(*                                                                         *)
(* Conventions                                                             *)
(*  - a string (Str, Tag, path segment) is a sequence of one-character     *)
(*    strings, so names can be inspected character by character;           *)
(*  - a NodeIndex is the position of the node in graph.nodes; petgraph     *)
(*    counts from 0, the sequences here from 1, the order is the same;     *)
(*  - Option<T> is <<>> (None) or <<x>> (Some(x));                         *)
(*  - Result<T> is [ok |-> TRUE, ...] or [ok |-> FALSE, err |-> e].        *)
(***************************************************************************)
EXTENDS Integers, Sequences, FiniteSets, TLC

VARIABLES parts, last, hist

vars == <<parts, last, hist>>

(* ---------------------------------------------------------------------- *)
(* Bound of the model: extend_root is only recorded while the graph holds  *)
(* at most MaxNodes nodes.                                                 *)
(* ---------------------------------------------------------------------- *)
MaxNodes == 6

(* ---------------------------------------------------------------------- *)
(* Option, iterators                                                       *)
(* ---------------------------------------------------------------------- *)
None == <<>>

Some(x) == <<x>>

Range(s) == {s[i] : i \in 1..Len(s)}

Min(S) == CHOOSE x \in S : \A y \in S : x <= y

\* Iterator::find: the first element of the iteration that satisfies P
find(s, P(_)) ==
    LET I == {i \in 1..Len(s) : P(s[i])}
    IN  IF I = {} THEN None ELSE Some(s[Min(I)])

\* Iterator::any
any(s, P(_)) == \E i \in 1..Len(s) : P(s[i])

\* Iterator::filter
filter(s, P(_)) == SelectSeq(s, P)

\* slice::sort on node indices
RECURSIVE sort(_)
sort(s) ==
    IF s = <<>> THEN <<>>
    ELSE LET m == Min(Range(s))
             i == Min({k \in 1..Len(s) : s[k] = m})
         IN  <<m>> \o sort(SubSeq(s, 1, i - 1) \o SubSeq(s, i + 1, Len(s)))

\* Vec::dedup: removes consecutive repeated elements
RECURSIVE dedup(_)
dedup(s) ==
    IF Len(s) <= 1 THEN s
    ELSE IF s[1] = s[2] THEN dedup(Tail(s))
         ELSE <<s[1]>> \o dedup(Tail(s))

(* ---------------------------------------------------------------------- *)
(* Characters                                                              *)
(* ---------------------------------------------------------------------- *)
AsciiAlphabetic ==
    {"a","b","c","d","e","f","g","h","i","j","k","l","m",
     "n","o","p","q","r","s","t","u","v","w","x","y","z",
     "A","B","C","D","E","F","G","H","I","J","K","L","M",
     "N","O","P","Q","R","S","T","U","V","W","X","Y","Z"}

AsciiDigit == {"0","1","2","3","4","5","6","7","8","9"}

is_ascii_alphabetic(c) == c \in AsciiAlphabetic

is_ascii_alphanumeric(c) == c \in AsciiAlphabetic \cup AsciiDigit

\* a byte that is not valid UTF-8, as an OsStr path segment may hold
NonUtf8 == "#FF"

\* OsStr::to_str: None when the segment is not valid UTF-8
to_str(p) == IF NonUtf8 \in Range(p) THEN None ELSE Some(p)

\* Option::unwrap_or_default on an Option<Str>
unwrap_or_default(o) == IF o = None THEN <<>> ELSE o[1]

(* ---------------------------------------------------------------------- *)
(* Results and errors                                                      *)
(* ---------------------------------------------------------------------- *)
Error(cat, desc) == [cat |-> cat, desc |-> desc]

item_already_defined(ty, name) ==
    Error("Definitions", <<"the ", ty, " '", name, "' is already defined">>)

\* is_valid_part_name that looks at the later characters before the first
is_valid_part_name_later_first(name) ==
    IF name = <<>>
    THEN [ok |-> FALSE,
          err |-> Error("Definitions", <<"partition boundary names cannot be empty">>)]
    ELSE LET f == name[1]
             cs == Tail(name)
         IN  IF \A i \in 1..Len(cs) :
                    cs[i] = "-" \/ cs[i] = "_" \/ is_ascii_alphanumeric(cs[i])
             THEN IF f = "_" \/ is_ascii_alphabetic(f)
                  THEN [ok |-> TRUE]
                  ELSE [ok |-> FALSE,
                        err |-> Error("Definitions",
                                  <<"partition name '", name,
                                    "' is invalid, must start with _,a-z,A-Z">>)]
             ELSE [ok |-> FALSE,
                   err |-> Error("Definitions",
                             <<"partition name '", name,
                               "' is invalid, it contains a character outside of _,-,a-z,A-Z,0-9">>)]

is_valid_part_name(name) ==
    IF name = <<>>
    THEN [ok |-> FALSE,
          err |-> Error("Definitions", <<"partition boundary names cannot be empty">>)]
    ELSE LET f == name[1]
             cs == Tail(name)
         IN  IF f = "_" \/ is_ascii_alphabetic(f)
             THEN IF \A i \in 1..Len(cs) :
                        cs[i] = "-" \/ cs[i] = "_" \/ is_ascii_alphanumeric(cs[i])
                  THEN [ok |-> TRUE]
                  ELSE [ok |-> FALSE,
                        err |-> Error("Definitions",
                                  <<"partition name '", name,
                                    "' is invalid, it contains a character outside of _,-,a-z,A-Z,0-9">>)]
             ELSE [ok |-> FALSE,
                   err |-> Error("Definitions",
                             <<"partition name '", name,
                               "' is invalid, must start with _,a-z,A-Z">>)]

(* ---------------------------------------------------------------------- *)
(* Nodes and the graph                                                     *)
(* ---------------------------------------------------------------------- *)
EMPTY == <<>>

Boundary(name, exports) == [kind |-> "Boundary", name |-> name, exports |-> exports]

Type(name, imports) == [kind |-> "Type", name |-> name, imports |-> imports]

Impl(name, imports) == [kind |-> "Impl", name |-> name, imports |-> imports]

is_boundary(node) == node.kind = "Boundary"

is_type(node) == node.kind = "Type"

is_impl(node) == node.kind = "Impl"

eq_boundary(node, name) == is_boundary(node) /\ name = node.name

eq_type(node, name) == is_type(node) /\ name = node.name

eq_impl(node, name) == is_impl(node) /\ name = node.name

\* StableGraph::new
Inner == [nodes |-> <<>>, edges |-> <<>>]

\* StableGraph::add_node: the new node takes the next index
add_node(graph, node) == [graph EXCEPT !.nodes = Append(@, node)]

\* the index add_node hands out
next_index(graph) == Len(graph.nodes) + 1

\* add_edge that forgets the edges added before
add_edge_only(graph, a, b) == [graph EXCEPT !.edges = <<<<a, b>>>>]

\* StableGraph::add_edge
add_edge(graph, a, b) == [graph EXCEPT !.edges = Append(@, <<a, b>>)]

\* StableGraph::neighbors: the targets of the outgoing edges of a, the most
\* recently added edge first
RECURSIVE neighbors_upto(_, _, _)
neighbors_upto(graph, a, k) ==
    IF k = 0 THEN <<>>
    ELSE (IF graph.edges[k][1] = a THEN <<graph.edges[k][2]>> ELSE <<>>)
         \o neighbors_upto(graph, a, k - 1)

neighbors(graph, a) == neighbors_upto(graph, a, Len(graph.edges))

RootName == <<"<","r","o","o","t",">">>

ShellName == <<"<","s","h","e","l","l",">">>

PluginsName == <<"<","p","l","u","g","i","n","s",">">>

\* new() that hangs shell and plugins under root
new_linked ==
    LET g1 == add_node(Inner, Boundary(RootName, EMPTY))
        g2 == add_node(g1, Boundary(ShellName, EMPTY))
        g3 == add_node(g2, Boundary(PluginsName, EMPTY))
    IN  [root |-> next_index(Inner), shell |-> next_index(g1),
         plugins |-> next_index(g2),
         graph |-> add_edge(add_edge(g3, 1, 2), 1, 3)]

\* Partitions::new
new ==
    LET g1 == add_node(Inner, Boundary(RootName, EMPTY))
        g2 == add_node(g1, Boundary(ShellName, EMPTY))
        g3 == add_node(g2, Boundary(PluginsName, EMPTY))
    IN  [root |-> next_index(Inner), shell |-> next_index(g1),
         plugins |-> next_index(g2), graph |-> g3]

(* ---------------------------------------------------------------------- *)
(* Building the graph.  A method that takes &mut self returns the updated  *)
(* self next to its value; on Err, self is the state the method left.      *)
(* An operator named x_k continues x with the value of the call x made.    *)
(* ---------------------------------------------------------------------- *)
\* add_node followed by add_edge(parent, new node)
\* add_node followed by two edges from the parent to the new node
add_child_twice(graph, parent, node) ==
    add_edge(add_edge(add_node(graph, node), parent, next_index(graph)),
             parent, next_index(graph))

add_child(graph, parent, node) ==
    add_edge(add_node(graph, node), parent, next_index(graph))

RECURSIVE boundary_path_loop(_, _, _, _, _)
\* the None arm: validate the name, then create the boundary under a
boundary_path_create(self, path, root, a, i, name, v) ==
    IF ~v.ok
    THEN [ok |-> FALSE, self |-> self, err |-> v.err]
    ELSE boundary_path_loop(
             [self EXCEPT !.graph = add_child(@, a, Boundary(name, EMPTY))],
             path, root, next_index(self.graph), i + 1)

\* the None arm without the validation of the name
boundary_path_none_unchecked(self, path, root, a, i, name) ==
    boundary_path_create(self, path, root, a, i, name, [ok |-> TRUE])

boundary_path_none(self, path, root, a, i, name) ==
    boundary_path_create(self, path, root, a, i, name, is_valid_part_name(name))

\* `let b = match b`
boundary_path_k(self, path, root, a, i, b) ==
    IF b # None
    THEN boundary_path_loop(self, path, root, b[1], i + 1)
    ELSE boundary_path_none(self, path, root, a, i,
                            unwrap_or_default(to_str(path[i])))

\* `for p in path.iter()`, a the boundary reached so far
boundary_path_loop(self, path, root, a, i) ==
    IF i > Len(path) THEN [ok |-> TRUE, self |-> self, val |-> a]
    ELSE boundary_path_k(self, path, root, a, i,
                         find(neighbors(self.graph, root),
                              LAMBDA n : eq_boundary(self.graph.nodes[n], path[i])))

\* get_or_create_boundary_path that validates the empty path as a name
get_or_create_boundary_path_validating(self, path, root) ==
    IF path = <<>>
    THEN boundary_path_create(self, path, root, root, 1, <<>>,
                              is_valid_part_name(<<>>))
    ELSE boundary_path_loop(self, path, root, root, 1)

get_or_create_boundary_path(self, path, root) ==
    boundary_path_loop(self, path, root, root, 1)

\* add_type that compares against the sibling impls instead of the types
add_type_wrong_kind(self, parent, name) ==
    IF any(neighbors(self.graph, parent),
           LAMBDA n : eq_impl(self.graph.nodes[n], name))
    THEN [ok |-> FALSE, self |-> self, err |-> item_already_defined("type", name)]
    ELSE [ok |-> TRUE,
          self |-> [self EXCEPT !.graph = add_child(@, parent, Type(name, EMPTY))],
          val |-> next_index(self.graph)]

add_type(self, parent, name) ==
    IF any(neighbors(self.graph, parent),
           LAMBDA n : eq_type(self.graph.nodes[n], name))
    THEN [ok |-> FALSE, self |-> self, err |-> item_already_defined("type", name)]
    ELSE [ok |-> TRUE,
          self |-> [self EXCEPT !.graph = add_child(@, parent, Type(name, EMPTY))],
          val |-> next_index(self.graph)]

\* add_impl that compares the name against every sibling, of whatever kind
add_impl_any_kind(self, parent, name) ==
    IF any(neighbors(self.graph, parent),
           LAMBDA n : self.graph.nodes[n].name = name)
    THEN [ok |-> FALSE, self |-> self, err |-> item_already_defined("impl", name)]
    ELSE [ok |-> TRUE,
          self |-> [self EXCEPT !.graph = add_child(@, parent, Impl(name, EMPTY))],
          val |-> next_index(self.graph)]

add_impl(self, parent, name) ==
    IF any(neighbors(self.graph, parent),
           LAMBDA n : eq_impl(self.graph.nodes[n], name))
    THEN [ok |-> FALSE, self |-> self, err |-> item_already_defined("impl", name)]
    ELSE [ok |-> TRUE,
          self |-> [self EXCEPT !.graph = add_child(@, parent, Impl(name, EMPTY))],
          val |-> next_index(self.graph)]

\* the search for an export name among all the children, boundaries included
find_export_any_child(self, boundary, e) ==
    find(neighbors(self.graph, boundary),
         LAMBDA n : self.graph.nodes[n].name = e)

\* the search of add_exports for one export name
find_export(self, boundary, e) ==
    find(filter(neighbors(self.graph, boundary),
                LAMBDA n : ~is_boundary(self.graph.nodes[n])),
         LAMBDA n : self.graph.nodes[n].name = e)

RECURSIVE add_exports_loop(_, _, _, _, _)
\* add_exports that pushes every type and impl of the exported name
add_exports_k_all_named(self, boundary, exports, xs, k, i) ==
    IF i = None
    THEN [ok |-> FALSE,
          err |-> Error("Definitions",
                        <<"could not find export item '", exports[k], "'">>)]
    ELSE add_exports_loop(self, boundary, exports,
             xs \o filter(neighbors(self.graph, boundary),
                          LAMBDA n : /\ ~is_boundary(self.graph.nodes[n])
                                     /\ self.graph.nodes[n].name = exports[k]),
             k + 1)

add_exports_k(self, boundary, exports, xs, k, i) ==
    IF i = None
    THEN [ok |-> FALSE,
          err |-> Error("Definitions",
                        <<"could not find export item '", exports[k], "'">>)]
    ELSE add_exports_loop(self, boundary, exports, Append(xs, i[1]), k + 1)

\* `for e in exports`
add_exports_loop(self, boundary, exports, xs, k) ==
    IF k > Len(exports) THEN [ok |-> TRUE, val |-> xs]
    ELSE add_exports_k(self, boundary, exports, xs, k,
                       find_export(self, boundary, exports[k]))

\* the store without the dedup
add_exports_store_no_dedup(self, boundary, r) ==
    IF ~r.ok THEN [ok |-> FALSE, self |-> self, err |-> r.err]
    ELSE [ok |-> TRUE,
          self |-> [self EXCEPT !.graph.nodes[boundary].exports = sort(r.val)]]

\* after the loop: sort, dedup and store
add_exports_store(self, boundary, r) ==
    IF ~r.ok THEN [ok |-> FALSE, self |-> self, err |-> r.err]
    ELSE [ok |-> TRUE,
          self |-> [self EXCEPT !.graph.nodes[boundary].exports = dedup(sort(r.val))]]

\* add_exports that starts from an empty list instead of the stored exports
add_exports_fresh(self, boundary, exports) ==
    IF exports = <<>> THEN [ok |-> TRUE, self |-> self]
    ELSE add_exports_store(self, boundary,
             add_exports_loop(self, boundary, exports, <<>>, 1))

add_exports(self, boundary, exports) ==
    IF exports = <<>> THEN [ok |-> TRUE, self |-> self]
    ELSE add_exports_store(self, boundary,
             add_exports_loop(self, boundary, exports,
                              self.graph.nodes[boundary].exports, 1))

(* ---------------------------------------------------------------------- *)
(* Queries.  The fuzzy "did you mean" help message of find_boundary only   *)
(* decorates the error and is left out of Error.                           *)
(* ---------------------------------------------------------------------- *)
RECURSIVE find_boundary_loop(_, _, _, _)
find_boundary_k(self, a, path, i, b) ==
    IF b # None
    THEN find_boundary_loop(self, b[1], path, i + 1)
    ELSE [ok |-> FALSE,
          err |-> Error("Definitions", <<path[i], " does not match any partitions">>)]

\* find_boundary that follows a child of the segment's name, of whatever kind
find_boundary_loop_any_kind(self, a, path, i) ==
    IF i > Len(path) THEN [ok |-> TRUE, val |-> a]
    ELSE find_boundary_k(self, a, path, i,
                         find(neighbors(self.graph, a),
                              LAMBDA n : self.graph.nodes[n].name = path[i]))

find_boundary_loop(self, a, path, i) ==
    IF i > Len(path) THEN [ok |-> TRUE, val |-> a]
    ELSE find_boundary_k(self, a, path, i,
                         find(neighbors(self.graph, a),
                              LAMBDA n : eq_boundary(self.graph.nodes[n], path[i])))

find_boundary(self, from, path) == find_boundary_loop(self, from, path, 1)

\* globset::Glob::new on the patterns used here: literals, '*' and '?';
\* a '[' opens a character class and is an error when no ']' closes it
glob_new(pattern) ==
    IF \E i \in 1..Len(pattern) :
           pattern[i] = "[" /\ \A j \in (i + 1)..Len(pattern) : pattern[j] # "]"
    THEN [ok |-> FALSE]
    ELSE [ok |-> TRUE, pat |-> pattern]

\* GlobMatcher::is_match: '*' matches any run of characters, '?' any one
\* character, any other character itself
RECURSIVE is_match_from(_, _, _, _)
is_match_from(pat, s, i, j) ==
    IF i > Len(pat) THEN j > Len(s)
    ELSE IF pat[i] = "*"
         THEN is_match_from(pat, s, i + 1, j)
              \/ (j <= Len(s) /\ is_match_from(pat, s, i, j + 1))
         ELSE /\ j <= Len(s)
              /\ (pat[i] = "?" \/ pat[i] = s[j])
              /\ is_match_from(pat, s, i + 1, j + 1)

is_match(pat, s) == is_match_from(pat, s, 1, 1)

\* glob_find that only yields the children the parent exports
glob_find_k_exported(self, parent, g) ==
    IF ~g.ok
    THEN [ok |-> FALSE, err |-> Error("Parsing", <<"invalid glob pattern">>)]
    ELSE [ok |-> TRUE,
          val |-> filter(neighbors(self.graph, parent),
                         LAMBDA n : /\ is_match(g.pat, self.graph.nodes[n].name)
                                    /\ n \in Range(self.graph.nodes[parent].exports))]

glob_find_k(self, parent, g) ==
    IF ~g.ok
    THEN [ok |-> FALSE, err |-> Error("Parsing", <<"invalid glob pattern">>)]
    ELSE [ok |-> TRUE,
          val |-> filter(neighbors(self.graph, parent),
                         LAMBDA n : is_match(g.pat, self.graph.nodes[n].name))]

glob_find(self, parent, pattern) == glob_find_k(self, parent, glob_new(pattern))

resolve_import_k(self, import, bnd) ==
    IF ~bnd.ok THEN bnd ELSE glob_find(self, bnd.val, import.glob)

\* resolve_import that looks the path up from root
resolve_import_from_root(self, from, import) ==
    resolve_import_k(self, import, find_boundary(self, self.root, import.path))

resolve_import(self, from, import) ==
    resolve_import_k(self, import, find_boundary(self, from, import.path))

RECURSIVE resolve_imports_fold(_, _, _, _, _)
resolve_imports_k(self, from, imports, v, k, x) ==
    IF ~x.ok THEN x
    ELSE resolve_imports_fold(self, from, imports, v \o x.val, k + 1)

resolve_imports_fold(self, from, imports, v, k) ==
    IF k > Len(imports) THEN [ok |-> TRUE, val |-> v]
    ELSE resolve_imports_k(self, from, imports, v, k,
                           resolve_import(self, from, imports[k]))

resolve_imports(self, from, imports) ==
    resolve_imports_fold(self, from, imports, <<>>, 1)

\* `for n in to`
RECURSIVE set_imports(_, _, _, _)
set_imports(graph, to, xs, k) ==
    IF k > Len(to) THEN graph
    ELSE set_imports(IF is_boundary(graph.nodes[to[k]]) THEN graph
                     ELSE [graph EXCEPT !.nodes[to[k]].imports = xs],
                     to, xs, k + 1)

\* add_imports without the dedup
add_imports_k_no_dedup(self, to, r) ==
    IF ~r.ok THEN [ok |-> FALSE, self |-> self, err |-> r.err]
    ELSE [ok |-> TRUE,
          self |-> [self EXCEPT !.graph = set_imports(@, to, sort(r.val), 1)]]

\* add_imports that stores the list in every type and impl of the graph
add_imports_k_every_item(self, to, r) ==
    IF ~r.ok THEN [ok |-> FALSE, self |-> self, err |-> r.err]
    ELSE [ok |-> TRUE,
          self |-> [self EXCEPT !.graph =
                       set_imports(@, [n \in 1..Len(self.graph.nodes) |-> n],
                                   dedup(sort(r.val)), 1)]]

add_imports_k(self, to, r) ==
    IF ~r.ok THEN [ok |-> FALSE, self |-> self, err |-> r.err]
    ELSE [ok |-> TRUE,
          self |-> [self EXCEPT !.graph = set_imports(@, to, dedup(sort(r.val)), 1)]]

add_imports(self, boundary, imports, to) ==
    IF imports = <<>> THEN [ok |-> TRUE, self |-> self]
    ELSE add_imports_k(self, to, resolve_imports(self, boundary, imports))

(* ---------------------------------------------------------------------- *)
(* extend_root.  A File is [types, impls, directives], types and impls the *)
(* declared names in order (the items themselves are not looked at); a     *)
(* Directive is [d |-> "Import", imports], [d |-> "Export", exports],      *)
(* [d |-> "FailFast"] or [d |-> "NoParallelise"]; an Import is             *)
(* [path, glob].  fsmap is the sequence of (path, files) entries in the    *)
(* order the map iterates them, and ord the order in which exports_map     *)
(* iterates its keys.                                                      *)
(* ---------------------------------------------------------------------- *)
RECURSIVE fold_directives(_, _, _)
fold_directives(directives, i, e) ==
    IF directives = <<>> THEN [imports |-> i, exports |-> e]
    ELSE IF Head(directives).d = "Import"
         THEN fold_directives(Tail(directives), i \o Head(directives).imports, e)
         ELSE IF Head(directives).d = "Export"
              THEN fold_directives(Tail(directives), i, e \o Head(directives).exports)
              ELSE fold_directives(Tail(directives), i, e)

RECURSIVE add_types_loop(_, _, _, _, _)
add_types_k(bnd, types, ns, k, r) ==
    IF ~r.ok THEN r
    ELSE add_types_loop(r.self, bnd, types, Append(ns, r.val), k + 1)

\* `for (n, _) in &types`
add_types_loop(self, bnd, types, ns, k) ==
    IF k > Len(types) THEN [ok |-> TRUE, self |-> self, val |-> ns]
    ELSE add_types_k(bnd, types, ns, k, add_type(self, bnd, types[k]))

RECURSIVE add_impls_loop(_, _, _, _, _)
add_impls_k(bnd, impls, ns, k, r) ==
    IF ~r.ok THEN r
    ELSE add_impls_loop(r.self, bnd, impls, Append(ns, r.val), k + 1)

\* `for (n, _) in &impls`
add_impls_loop(self, bnd, impls, ns, k) ==
    IF k > Len(impls) THEN [ok |-> TRUE, self |-> self, val |-> ns]
    ELSE add_impls_k(bnd, impls, ns, k, add_impl(self, bnd, impls[k]))

\* the entry that keeps only the exports of the latest file of the boundary
entry_extend_replace(exports_map, bnd, exports) ==
    [b \in (DOMAIN exports_map) \cup {bnd} |->
        IF b = bnd THEN exports ELSE exports_map[b]]

\* HashMap::entry(bnd).or_default().extend(exports)
entry_extend(exports_map, bnd, exports) ==
    IF bnd \in DOMAIN exports_map
    THEN [exports_map EXCEPT ![bnd] = @ \o exports]
    ELSE [b \in (DOMAIN exports_map) \cup {bnd} |->
            IF b = bnd THEN exports ELSE exports_map[b]]

RECURSIVE files_loop(_, _, _, _)
\* files_impls_k that buffers the imports of a file that declares nothing
files_impls_k_always_buffer(st, bnd, files, k, d, m) ==
    IF ~m.ok THEN [ok |-> FALSE, self |-> m.self, err |-> m.err]
    ELSE files_loop(
             [self |-> m.self,
              exports_map |-> IF d.exports # <<>>
                              THEN entry_extend(st.exports_map, bnd, d.exports)
                              ELSE st.exports_map,
              imports_col |-> IF d.imports # <<>>
                              THEN Append(st.imports_col,
                                          [bnd |-> bnd, imports |-> d.imports,
                                           nodes |-> m.val])
                              ELSE st.imports_col],
             bnd, files, k + 1)

\* after the impls of the file: buffer its imports, go to the next file
files_impls_k(st, bnd, files, k, d, m) ==
    IF ~m.ok THEN [ok |-> FALSE, self |-> m.self, err |-> m.err]
    ELSE files_loop(
             [self |-> m.self,
              exports_map |-> IF d.exports # <<>>
                              THEN entry_extend(st.exports_map, bnd, d.exports)
                              ELSE st.exports_map,
              imports_col |-> IF m.val # <<>> /\ d.imports # <<>>
                              THEN Append(st.imports_col,
                                          [bnd |-> bnd, imports |-> d.imports,
                                           nodes |-> m.val])
                              ELSE st.imports_col],
             bnd, files, k + 1)

\* after the types of the file: its impls
files_types_k(st, bnd, files, k, d, t) ==
    IF ~t.ok THEN [ok |-> FALSE, self |-> t.self, err |-> t.err]
    ELSE files_impls_k(st, bnd, files, k, d,
                       add_impls_loop(t.self, bnd, files[k].impls, t.val, 1))

\* after the fold of the directives: the types of the file
files_directives_k(st, bnd, files, k, d) ==
    files_types_k(st, bnd, files, k, d,
                  add_types_loop(st.self, bnd, files[k].types, <<>>, 1))

\* `for file in files`, st the Partitions and the two buffers
files_loop(st, bnd, files, k) ==
    IF k > Len(files) THEN [ok |-> TRUE, st |-> st]
    ELSE files_directives_k(st, bnd, files, k,
                            fold_directives(files[k].directives, <<>>, <<>>))

RECURSIVE fsmap_loop(_, _, _)
fsmap_files_k(fsmap, k, f) ==
    IF ~f.ok THEN f ELSE fsmap_loop(f.st, fsmap, k + 1)

fsmap_boundary_k(st, fsmap, k, b) ==
    IF ~b.ok THEN [ok |-> FALSE, self |-> b.self, err |-> b.err]
    ELSE fsmap_files_k(fsmap, k,
                       files_loop([st EXCEPT !.self = b.self], b.val,
                                  fsmap[k].files, 1))

\* Phase 1: `for (p, files) in fsmap`
fsmap_loop(st, fsmap, k) ==
    IF k > Len(fsmap) THEN [ok |-> TRUE, st |-> st]
    ELSE fsmap_boundary_k(st, fsmap, k,
                          get_or_create_boundary_path(st.self, fsmap[k].p, st.self.root))

phase1(self, fsmap) ==
    fsmap_loop([self |-> self, exports_map |-> <<>>, imports_col |-> <<>>], fsmap, 1)

RECURSIVE phase2(_, _, _, _)
phase2_k(exports_map, ord, k, r) ==
    IF ~r.ok THEN r ELSE phase2(r.self, exports_map, ord, k + 1)

\* Phase 2: `for (bnd, exports) in exports_map`
phase2(self, exports_map, ord, k) ==
    IF k > Len(ord) THEN [ok |-> TRUE, self |-> self]
    ELSE phase2_k(exports_map, ord, k,
                  add_exports(self, ord[k], exports_map[ord[k]]))

RECURSIVE phase3(_, _, _)
phase3_k(imports_col, k, r) ==
    IF ~r.ok THEN r ELSE phase3(r.self, imports_col, k + 1)

\* Phase 3: `for (bnd, imports, nodes) in imports_col`
phase3(self, imports_col, k) ==
    IF k > Len(imports_col) THEN [ok |-> TRUE, self |-> self]
    ELSE phase3_k(imports_col, k,
                  add_imports(self, imports_col[k].bnd, imports_col[k].imports,
                              imports_col[k].nodes))

\* extend_root consumes self: Ok carries the extended Partitions; on Err only
\* the error reaches the caller (self is then the value dropped on return,
\* and phase the phase whose `?` returned)
\* extend_root that clears the imports lists when phase 3 fails
extend_root_3_rollback(p3) ==
    IF ~p3.ok
    THEN [ok |-> FALSE,
          self |-> [p3.self EXCEPT !.graph.nodes =
                       [n \in DOMAIN p3.self.graph.nodes |->
                           IF is_boundary(p3.self.graph.nodes[n])
                           THEN p3.self.graph.nodes[n]
                           ELSE [p3.self.graph.nodes[n] EXCEPT !.imports = EMPTY]]],
          err |-> p3.err, phase |-> 3]
    ELSE [ok |-> TRUE, self |-> p3.self]

extend_root_3(p3) ==
    IF ~p3.ok THEN [ok |-> FALSE, self |-> p3.self, err |-> p3.err, phase |-> 3]
    ELSE [ok |-> TRUE, self |-> p3.self]

\* extend_root that goes on to phase 3 after a failure of phase 2
extend_root_2_continue(imports_col, p2) ==
    IF ~p2.ok
    THEN [ok |-> FALSE, self |-> phase3(p2.self, imports_col, 1).self,
          err |-> p2.err, phase |-> 2]
    ELSE extend_root_3(phase3(p2.self, imports_col, 1))

extend_root_2(imports_col, p2) ==
    IF ~p2.ok THEN [ok |-> FALSE, self |-> p2.self, err |-> p2.err, phase |-> 2]
    ELSE extend_root_3(phase3(p2.self, imports_col, 1))

extend_root_1(ord, p1) ==
    IF ~p1.ok THEN [ok |-> FALSE, self |-> p1.self, err |-> p1.err, phase |-> 1]
    ELSE extend_root_2(p1.st.imports_col,
                       phase2(p1.st.self, p1.st.exports_map, ord, 1))

extend_root(self, fsmap, ord) == extend_root_1(ord, phase1(self, fsmap))

(* ---------------------------------------------------------------------- *)
(* Inputs: the names, paths, files and file maps extend_root is called     *)
(* with.                                                                   *)
(* ---------------------------------------------------------------------- *)
na == <<"a">>

nb == <<"b">>

\* path segments that are not valid partition names
BadFirst == <<"1">>

BadLater == <<"a", " ">>

BadUtf8 == <<NonUtf8>>

File(types, impls, directives) ==
    [types |-> types, impls |-> impls, directives |-> directives]

Import(path, glob) == [path |-> path, glob |-> glob]

DImport(x) == [d |-> "Import", imports |-> x]

DExport(x) == [d |-> "Export", exports |-> x]

FT == File(<<na>>, <<>>, <<>>)

FI == File(<<>>, <<na>>, <<>>)

FTT == File(<<na, na>>, <<>>, <<>>)

FTX == File(<<na>>, <<>>, <<DExport(<<na>>)>>)

FIX == File(<<>>, <<nb>>, <<[d |-> "FailFast"], DExport(<<nb>>)>>)

FX == File(<<>>, <<>>, <<DExport(<<na>>)>>)

\* an import from the child boundary b
FIM == File(<<>>, <<nb>>, <<DImport(<<Import(<<nb>>, <<"?">>)>>)>>)

\* two imports whose matches overlap, next to an exports directive
FMX == File(<<na>>, <<nb>>,
            <<DExport(<<nb>>), DImport(<<Import(<<>>, <<"?">>)>>),
              [d |-> "NoParallelise"],
              DImport(<<Import(<<>>, <<"a", "*">>)>>)>>)

\* a glob with an unclosed character class
FMG == File(<<na>>, <<>>, <<DImport(<<Import(<<>>, <<"[">>)>>)>>)

\* imports in a file that declares nothing
FM0 == File(<<>>, <<>>, <<DImport(<<Import(<<nb>>, <<"[">>)>>)>>)

\* an import with a malformed glob in a file that declares type b
FMB == File(<<nb>>, <<>>, <<DImport(<<Import(<<>>, <<"[">>)>>)>>)

\* a type and an impl of one name, and an export of that name
FTIX == File(<<na>>, <<na>>, <<DExport(<<na>>)>>)

FileLists ==
    {<<>>, <<FT>>, <<FI>>, <<FTT>>, <<FT, FT>>, <<FTX>>, <<FIX>>,
     <<FX>>, <<FX, FT>>, <<FIM>>, <<FMX>>, <<FMG>>, <<FM0>>}

Entry(p, files) == [p |-> p, files |-> files]

\* maps of one path
Entries ==
    {Entry(p, fs) : p \in {<<na>>, <<na, nb>>}, fs \in FileLists}
    \cup {Entry(<<>>, fs) : fs \in {<<>>, <<FX>>, <<FMX>>}}
    \cup {Entry(<<na, na>>, fs) : fs \in {<<>>, <<FT>>, <<FX>>}}
    \cup {Entry(p, <<>>) : p \in {<<BadFirst>>, <<BadUtf8>>}}
    \cup {Entry(<<na, BadLater>>, fs) : fs \in {<<>>, <<FTT>>}}
    \cup {Entry(<<na, BadFirst, nb>>, <<>>)}
    \cup {Entry(<<na>>, fs) :
              fs \in {<<FMX, FMB>>, <<FMX, FT>>, <<FX, FT, FIX>>, <<FIX, FT, FX>>,
                      <<FTIX>>, <<FI, FX>>}}

\* maps of two paths, in both iteration orders
PairMaps ==
    LET M == {<<Entry(<<na>>, f1), Entry(<<na, nb>>, f2)>> :
                 f1 \in {<<FTX>>, <<FIM>>, <<FMX>>}, f2 \in {<<FTX>>, <<FX>>}}
    IN  M \cup {<<m[2], m[1]>> : m \in M}

FsMaps == {<<>>} \cup {<<e>> : e \in Entries} \cup PairMaps

\* the orders in which a HashMap with the keys S may iterate
Perms(S) ==
    {s \in [1..Cardinality(S) -> S] : \A i, j \in 1..Cardinality(S) : i # j => s[i] # s[j]}

\* the keys of exports_map when phase 1 is through
export_keys_k(p1) == IF p1.ok THEN DOMAIN p1.st.exports_map ELSE {}

export_keys(self, fsmap) == export_keys_k(phase1(self, fsmap))

(* ---------------------------------------------------------------------- *)
(* The state machine.  parts is the Partitions value the caller owns       *)
(* (Some), or None once a failed extend_root has consumed it; last         *)
(* records the latest call; hist records what the successful calls on the  *)
(* value in parts were given: declared holds <<path, "type" or "impl",     *)
(* name>> for each declaration, exported holds <<boundary, name>> for each *)
(* export name buffered for a boundary.                                    *)
(* ---------------------------------------------------------------------- *)
NoHist == [declared |-> {}, exported |-> {}]

\* the declarations of a file map, as <<path, kind, name>>
Decls(fsmap) ==
    UNION {UNION {{<<fsmap[k].p, "type", fsmap[k].files[i].types[j]>> :
                      j \in 1..Len(fsmap[k].files[i].types)}
                  \cup {<<fsmap[k].p, "impl", fsmap[k].files[i].impls[j]>> :
                      j \in 1..Len(fsmap[k].files[i].impls)} :
                  i \in 1..Len(fsmap[k].files)} :
           k \in 1..Len(fsmap)}

\* the export names phase 1 buffers, as <<boundary, name>>
Exported_k(p1) ==
    IF ~p1.ok THEN {}
    ELSE UNION {{<<b, p1.st.exports_map[b][j]>> :
                    j \in 1..Len(p1.st.exports_map[b])} :
                b \in DOMAIN p1.st.exports_map}

Exported(self, fsmap) == Exported_k(phase1(self, fsmap))

Init ==
    /\ parts = Some(new)
    /\ last = [call |-> "new"]
    /\ hist = NoHist

\* the caller builds a fresh Partitions after a failed call
New ==
    /\ parts = None
    /\ parts' = Some(new)
    /\ last' = [call |-> "new"]
    /\ hist' = NoHist

\* extend_root(fsmap) on the value in parts returned r
Returned(fsmap, ord, r) ==
    /\ parts' = IF r.ok THEN Some(r.self) ELSE None
    /\ last' = [call |-> "extend_root", pre |-> parts[1], fsmap |-> fsmap,
                ord |-> ord, res |-> r, hist |-> hist]
    /\ hist' = IF r.ok
               THEN [declared |-> hist.declared \cup Decls(fsmap),
                     exported |-> hist.exported \cup Exported(parts[1], fsmap)]
               ELSE NoHist

ExtendRoot ==
    /\ parts # None
    /\ Len(parts[1].graph.nodes) <= MaxNodes
    /\ \E fsmap \in FsMaps :
         \E ord \in Perms(export_keys(parts[1], fsmap)) :
            Returned(fsmap, ord, extend_root(parts[1], fsmap, ord))

Next == New \/ ExtendRoot

Spec == Init /\ [][Next]_vars

(* ---------------------------------------------------------------------- *)
(* Vocabulary of the properties                                            *)
(* ---------------------------------------------------------------------- *)
Called == last.call = "extend_root"

Succeeded == Called /\ last.res.ok

\* the graph the latest call started from, and the one it ended with
pre == last.pre.graph

post == last.res.self.graph

\* the graph the caller holds
held == parts[1].graph

Children(graph, a) ==
    {graph.edges[i][2] : i \in {j \in 1..Len(graph.edges) : graph.edges[j][1] = a}}

BoundaryNodes(graph) == {n \in 1..Len(graph.nodes) : is_boundary(graph.nodes[n])}

ItemNodes(graph) == {n \in 1..Len(graph.nodes) : ~is_boundary(graph.nodes[n])}

\* the nodes the latest call created
Created == (Len(pre.nodes) + 1)..Len(post.nodes)

StrictlyAscending(s) == \A i \in 1..(Len(s) - 1) : s[i] < s[i + 1]

\* the entries, files and declared names of the latest call
EntryIdx == 1..Len(last.fsmap)

FileIdx(k) == 1..Len(last.fsmap[k].files)

(* ---------------------------------------------------------------------- *)
(* C1                                                                      *)
(* ---------------------------------------------------------------------- *)
\* C1: after a successful extend_root, for every path of the batch the type
\* and impl nodes declared by the files at that path are direct children of
\* the boundary find_boundary(root, path) returns, for paths of any depth.
ItemsUnderPathBoundary ==
    Succeeded =>
        \A k \in EntryIdx :
            LET b == find_boundary(last.res.self, last.res.self.root, last.fsmap[k].p)
            IN  /\ b.ok
                /\ \A i \in FileIdx(k) :
                     LET f == last.fsmap[k].files[i]
                     IN  /\ \A j \in 1..Len(f.types) :
                               \E x \in Created \cap Children(post, b.val) :
                                   eq_type(post.nodes[x], f.types[j])
                         /\ \A j \in 1..Len(f.impls) :
                               \E x \in Created \cap Children(post, b.val) :
                                   eq_impl(post.nodes[x], f.impls[j])

(* ---------------------------------------------------------------------- *)
(* C2                                                                      *)
(* ---------------------------------------------------------------------- *)
\* every segment chain of the path exists in the graph from root
ChainExists(self, path) == find_boundary(self, self.root, path).ok

\* the containment edges that lead to a boundary
BoundaryEdges(graph) ==
    {graph.edges[i] : i \in {j \in 1..Len(graph.edges) :
                                is_boundary(graph.nodes[graph.edges[j][2]])}}

\* C2: no boundary has two child boundaries of the same name, and a call
\* with a path whose whole boundary chain exists already adds no boundary
\* node and no edge to a boundary for it.
UniqueChildBoundaries ==
    /\ parts # None =>
          \A a \in BoundaryNodes(held) :
              \A x, y \in Children(held, a) \cap BoundaryNodes(held) :
                  held.nodes[x].name = held.nodes[y].name => x = y
    /\ (Succeeded /\ \A k \in EntryIdx : ChainExists(last.pre, last.fsmap[k].p))
       => /\ BoundaryNodes(post) = BoundaryNodes(pre)
          /\ BoundaryEdges(post) = BoundaryEdges(pre)

(* ---------------------------------------------------------------------- *)
(* C3                                                                      *)
(* ---------------------------------------------------------------------- *)
\* the graph a call leaves, whether it succeeded or failed
current == IF Called THEN post ELSE held

KindOf(ty) == IF ty = "type" THEN "Type" ELSE "Impl"

\* the call failed with item_already_defined
AlreadyDefined == Called /\ ~last.res.ok /\ last.res.err.desc[1] = "the "

\* C3: under every boundary no two type children share a name and no two
\* impl children share a name; a name is only refused as already defined
\* when a sibling of the same kind carries it, so a type and an impl, or an
\* item and a child boundary, of the same name are accepted.
UniqueItemNames ==
    /\ \A a \in BoundaryNodes(current) :
          \A x, y \in Children(current, a) \cap ItemNodes(current) :
              (current.nodes[x].kind = current.nodes[y].kind
                 /\ current.nodes[x].name = current.nodes[y].name) => x = y
    /\ AlreadyDefined =>
          LET ty == last.res.err.desc[2]
              name == last.res.err.desc[4]
          IN  /\ \E d \in Decls(last.fsmap) : d[2] = ty /\ d[3] = name
              /\ \E a \in BoundaryNodes(post) : \E x \in Children(post, a) :
                    post.nodes[x].kind = KindOf(ty) /\ post.nodes[x].name = name

\* a boundary holds a type and an impl of one name, and a boundary holds an
\* item and a child boundary of one name
SameNameAcrossKinds ==
    /\ Succeeded
    /\ \E a \in BoundaryNodes(post) : \E x, y \in Children(post, a) :
          /\ is_type(post.nodes[x]) /\ is_impl(post.nodes[y])
          /\ post.nodes[x].name = post.nodes[y].name
    /\ \E a \in BoundaryNodes(post) : \E x, y \in Children(post, a) :
          /\ is_boundary(post.nodes[x]) /\ ~is_boundary(post.nodes[y])
          /\ post.nodes[x].name = post.nodes[y].name

(* ---------------------------------------------------------------------- *)
(* C4                                                                      *)
(* ---------------------------------------------------------------------- *)
\* the declarations of the latest call that an earlier successful call on
\* the same Partitions made at the same path
Redeclared == Decls(last.fsmap) \cap last.hist.declared

\* C4: a call that declares, at a path p of any depth, a type or impl an
\* earlier successful call declared at p fails with the already-defined
\* error naming it.
RedeclarationFails ==
    (Called /\ Redeclared # {}) =>
        /\ ~last.res.ok
        /\ \E d \in Redeclared : last.res.err = item_already_defined(d[2], d[3])

(* ---------------------------------------------------------------------- *)
(* C5                                                                      *)
(* ---------------------------------------------------------------------- *)
NamesOf(f, ty) == IF ty = "type" THEN f.types ELSE f.impls

\* the places <<file, position>> where entry k declares name as a ty
Places(k, ty, name) ==
    UNION {{<<i, j>> : j \in {n \in 1..Len(NamesOf(last.fsmap[k].files[i], ty)) :
                                NamesOf(last.fsmap[k].files[i], ty)[n] = name}} :
           i \in FileIdx(k)}

\* <<entry, kind, name>> for the names the latest call declares twice at a path
DeclaredTwice ==
    {t \in {<<k, d[2], d[3]>> : k \in EntryIdx, d \in Decls(last.fsmap)} :
        Cardinality(Places(t[1], t[2], t[3])) >= 2}

\* no boundary received two nodes of this kind and name from the latest call
NoSecondNode(ty, name) ==
    \A a \in BoundaryNodes(post) :
        \A x, y \in Created \cap Children(post, a) :
            (post.nodes[x].kind = KindOf(ty) /\ post.nodes[y].kind = KindOf(ty)
               /\ post.nodes[x].name = name /\ post.nodes[y].name = name) => x = y

\* C5 as stated: a call that declares a type name (or impl name) twice at one
\* path fails with the already-defined error naming it, and no second node
\* of that name is added.
DuplicateInCallFails ==
    Called =>
        \A t \in DeclaredTwice :
            /\ ~last.res.ok
            /\ last.res.err = item_already_defined(t[2], t[3])
            /\ NoSecondNode(t[2], t[3])

\* every path segment of the latest call is a valid partition name
SegmentsValid ==
    \A k \in EntryIdx : \A i \in 1..Len(last.fsmap[k].p) :
        is_valid_part_name(unwrap_or_default(to_str(last.fsmap[k].p[i]))).ok

PartNameErrors ==
    {"partition boundary names cannot be empty", "partition name '"}

\* C5, amended: such a call fails in phase 1 and adds no second node of that
\* name; the error is the one of the first failing step, which is the
\* already-defined error naming it when every path segment of the batch is
\* a valid partition name and the batch declares nothing else, and otherwise
\* a partition-name error or an already-defined error of the batch.
DuplicateInCallFailsFirstStep ==
    Called =>
        \A t \in DeclaredTwice :
            /\ ~last.res.ok
            /\ last.res.phase = 1
            /\ NoSecondNode(t[2], t[3])
            /\ \/ last.res.err.desc[1] \in PartNameErrors
               \/ \E d \in Decls(last.fsmap) :
                     last.res.err = item_already_defined(d[2], d[3])
            /\ (SegmentsValid
                  /\ \A d \in Decls(last.fsmap) : d[2] = t[2] /\ d[3] = t[3])
               => last.res.err = item_already_defined(t[2], t[3])

\* a call declared a name twice in two files of a path left with the
\* already-defined error, after the first declaration had created its node
DuplicateRefused ==
    /\ Called
    /\ \E t \in DeclaredTwice :
          /\ \E x, y \in Places(t[1], t[2], t[3]) : x[1] # y[1]
          /\ last.res.err = item_already_defined(t[2], t[3])
          /\ \E x \in Created : post.nodes[x].kind = KindOf(t[2])
                                 /\ post.nodes[x].name = t[3]

(* ---------------------------------------------------------------------- *)
(* C6                                                                      *)
(* ---------------------------------------------------------------------- *)
\* C6: the exports list of every boundary is strictly ascending and holds
\* only type or impl nodes that are direct children of the boundary and
\* whose name an export directive of a file mapped to that boundary gave;
\* never a boundary or a deeper descendant.
ExportsWellFormed ==
    parts # None =>
        \A b \in BoundaryNodes(held) :
            /\ StrictlyAscending(held.nodes[b].exports)
            /\ \A i \in 1..Len(held.nodes[b].exports) :
                  /\ held.nodes[b].exports[i] \in Children(held, b) \cap ItemNodes(held)
                  /\ <<b, held.nodes[held.nodes[b].exports[i]].name>> \in hist.exported

\* a boundary with a child boundary and an item it does not export holds two
\* exports
TwoExports ==
    /\ parts # None
    /\ \E b \in BoundaryNodes(held) :
          /\ Len(held.nodes[b].exports) >= 2
          /\ Children(held, b) \cap BoundaryNodes(held) # {}

(* ---------------------------------------------------------------------- *)
(* C7                                                                      *)
(* ---------------------------------------------------------------------- *)
\* the export names the latest call buffered, as <<boundary, name>>
Buffered == Exported(last.pre, last.fsmap)

ExportingBoundaries == {e[1] : e \in Buffered}

Max(S) == CHOOSE x \in S : \A y \in S : y <= x

\* the items under b that carry the name e
ItemsNamed(graph, b, e) ==
    {x \in Children(graph, b) \cap ItemNodes(graph) : graph.nodes[x].name = e}

\* the identifiers the export names of the latest call resolve to for b: for
\* each name the item of that name added last
Resolved(b) ==
    {Max(ItemsNamed(post, e[1], e[2])) :
        e \in {x \in Buffered : x[1] = b /\ ItemsNamed(post, x[1], x[2]) # {}}}

\* the boundaries that had exports before the latest call and received
\* export names in it
ReExported ==
    {b \in ExportingBoundaries : b <= Len(pre.nodes) /\ pre.nodes[b].exports # <<>>}

\* C7 as stated: after a successful call the exports of such a boundary are
\* exactly the identifiers resolved from the call's export names, the
\* earlier list being replaced.
ExportsReplaced ==
    Succeeded =>
        \A b \in ReExported :
            /\ StrictlyAscending(post.nodes[b].exports)
            /\ Range(post.nodes[b].exports) = Resolved(b)

\* C7, amended: after a successful call the exports of such a boundary are
\* the sorted, duplicate-free union of its earlier list and the identifiers
\* resolved from the call's export names; the earlier list is merged, not
\* replaced, so an item exported only by the earlier call stays in it.
ExportsMerged ==
    Succeeded =>
        \A b \in ReExported :
            /\ StrictlyAscending(post.nodes[b].exports)
            /\ Range(post.nodes[b].exports) = Range(pre.nodes[b].exports) \cup Resolved(b)

\* a boundary keeps an item only the earlier call exported, next to one the
\* latest call exported
EarlierExportKept ==
    /\ Succeeded
    /\ \E b \in ReExported :
          /\ Range(pre.nodes[b].exports) \ Resolved(b) # {}
          /\ Resolved(b) \ Range(pre.nodes[b].exports) # {}

(* ---------------------------------------------------------------------- *)
(* C8                                                                      *)
(* ---------------------------------------------------------------------- *)
\* phase 1 of the latest call went through
Phase1Done == Called /\ (last.res.ok \/ last.res.phase > 1)

\* the buffered <<boundary, name>> that name no type or impl child of the
\* boundary (post has the nodes and edges phase 1 left)
Unresolved == {e \in Buffered : ItemsNamed(post, e[1], e[2]) = {}}

\* C8: when, after phase 1, an export name of a file mapped to boundary b is
\* the name of no direct type or impl child of b, extend_root fails with the
\* Definitions error "could not find export item '<name>'"; a child boundary
\* or a deeper item of that name does not resolve it.
UnresolvedExportFails ==
    (Phase1Done /\ Unresolved # {}) =>
        /\ ~last.res.ok
        /\ last.res.phase = 2
        /\ last.res.err.cat = "Definitions"
        /\ \E e \in Unresolved :
              last.res.err.desc = <<"could not find export item '", e[2], "'">>

\* the call failed on an export name that a child boundary carries and an
\* item below that child boundary carries
ExportOnlyBelow ==
    /\ Phase1Done
    /\ ~last.res.ok
    /\ \E e \in Unresolved :
          /\ last.res.err.desc = <<"could not find export item '", e[2], "'">>
          /\ \E c \in Children(post, e[1]) \cap BoundaryNodes(post) :
                /\ post.nodes[c].name = e[2]
                /\ \E x \in Children(post, c) \cap ItemNodes(post) :
                      post.nodes[x].name = e[2]

(* ---------------------------------------------------------------------- *)
(* C9                                                                      *)
(* ---------------------------------------------------------------------- *)
\* the imports a file carries
ImportsOf(f) ==
    UNION {Range(f.directives[j].imports) :
              j \in {n \in 1..Len(f.directives) : f.directives[n].d = "Import"}}

\* the files <<entry, file>> of the latest call that declare a type or an
\* impl and carry an import
Importing ==
    {g \in UNION {{<<k, i>> : i \in FileIdx(k)} : k \in EntryIdx} :
        /\ Len(last.fsmap[g[1]].files[g[2]].types)
             + Len(last.fsmap[g[1]].files[g[2]].impls) > 0
        /\ ImportsOf(last.fsmap[g[1]].files[g[2]]) # {}}

\* the place of an importing file among the importing files, in the order
\* phase 1 went through them
Rank(g) ==
    1 + Cardinality({h \in Importing : h[1] < g[1] \/ (h[1] = g[1] /\ h[2] < g[2])})

\* what phase 1 of the latest call buffered for phase 3
ImportsCol == phase1(last.pre, last.fsmap).st.imports_col

\* the children of the boundary found at the import's path from b whose
\* names match the import's glob, as they are when phase 1 is through
Matches(b, imp) ==
    {x \in Children(post, find_boundary(last.res.self, b, imp.path).val) :
        is_match(imp.glob, post.nodes[x].name)}

\* the buffered entry of file g names the nodes the file declared, in order,
\* under the file's boundary
DeclaredBy(g, c) ==
    LET f == last.fsmap[g[1]].files[g[2]]
    IN  /\ Len(c.nodes) = Len(f.types) + Len(f.impls)
        /\ \A j \in 1..Len(c.nodes) :
              /\ c.nodes[j] \in Created \cap Children(post, c.bnd)
              /\ IF j <= Len(f.types)
                 THEN eq_type(post.nodes[c.nodes[j]], f.types[j])
                 ELSE eq_impl(post.nodes[c.nodes[j]], f.impls[j - Len(f.types)])

\* C9: after a successful call every node declared by a file that declares
\* something and carries imports holds the same imports list: the ascending,
\* duplicate-free union over the file's imports of the matching children of
\* the boundary found at the import's path from the file's boundary (empty
\* when nothing matches); phase 3 only fails on a path that names no boundary
\* or on a malformed glob, never on a glob that matches nothing.
ImportsResolved ==
    /\ (Called /\ ~last.res.ok /\ last.res.phase = 3) =>
          \E c \in Range(ImportsCol) : \E imp \in Range(c.imports) :
              \/ ~find_boundary(last.res.self, c.bnd, imp.path).ok
              \/ ~glob_new(imp.glob).ok
    /\ Succeeded =>
        /\ Len(ImportsCol) = Cardinality(Importing)
        /\ \A g \in Importing :
              LET c == ImportsCol[Rank(g)]
                  expected == UNION {Matches(c.bnd, imp) :
                                        imp \in ImportsOf(last.fsmap[g[1]].files[g[2]])}
              IN  /\ DeclaredBy(g, c)
                  /\ \A j \in 1..Len(c.nodes) :
                        /\ StrictlyAscending(post.nodes[c.nodes[j]].imports)
                        /\ Range(post.nodes[c.nodes[j]].imports) = expected

\* a file with two nodes and two imports whose matches overlap was resolved
OverlappingImports ==
    /\ Succeeded
    /\ \E g \in Importing :
          LET c == ImportsCol[Rank(g)]
          IN  /\ Len(c.nodes) >= 2
              /\ \E i1, i2 \in ImportsOf(last.fsmap[g[1]].files[g[2]]) :
                    /\ i1 # i2
                    /\ Matches(c.bnd, i1) \cap Matches(c.bnd, i2) # {}
                    /\ Matches(c.bnd, i1) # Matches(c.bnd, i2)

(* ---------------------------------------------------------------------- *)
(* C10                                                                     *)
(* ---------------------------------------------------------------------- *)
\* the file map without its export directives
StripExports(fsmap) ==
    [k \in 1..Len(fsmap) |->
        [fsmap[k] EXCEPT !.files =
            [i \in 1..Len(fsmap[k].files) |->
                [fsmap[k].files[i] EXCEPT !.directives =
                    SelectSeq(@, LAMBDA d : d.d # "Export")]]]]

\* the latest call, had its files carried no export directive
WithoutExports == extend_root(last.pre, StripExports(last.fsmap), <<>>)

MaxCalls == 2

\* the Partitions values one successful extend_root call makes of self
extensions(self) ==
    {r.self : r \in {x \in UNION {{extend_root(self, m, ord) :
                                      ord \in Perms(export_keys(self, m))} :
                                  m \in FsMaps} : x.ok}}

\* the Partitions values at most d successful calls build
RECURSIVE Built(_)
Built(d) ==
    IF d = 0 THEN {new}
    ELSE Built(d - 1) \cup UNION {extensions(p) : p \in Built(d - 1)}

\* the paths find_boundary is asked for
FindPaths ==
    {<<>>, <<na>>, <<nb>>, <<na, nb>>, <<na, na>>, <<nb, na>>, <<na, nb, na>>}

\* a built graph, and the arguments of the call: a boundary of it and a path
InitFind ==
    /\ \E p \in Built(MaxCalls) :
          /\ parts = Some(p)
          /\ \E from \in BoundaryNodes(p.graph) : \E path \in FindPaths :
                last = [call |-> "built", from |-> from, path |-> path]
    /\ hist = NoHist

\* find_boundary(from, path) on the value in parts, which it only reads
FindBoundary ==
    /\ last.call = "built"
    /\ last' = [call |-> "find_boundary", pre |-> parts[1], from |-> last.from,
                path |-> last.path,
                res |-> find_boundary(parts[1], last.from, last.path)]
    /\ UNCHANGED <<parts, hist>>

NextFind == FindBoundary

SpecFind == InitFind /\ [][NextFind]_vars

(* ---------------------------------------------------------------------- *)
(* C11                                                                     *)
(* ---------------------------------------------------------------------- *)
Found == last.call = "find_boundary"

\* the boundaries that the first i segments of path lead to from a, each
\* step taking a child boundary that carries the segment as its name
RECURSIVE Reach(_, _, _, _)
Reach(graph, a, path, i) ==
    IF i = 0 THEN {a}
    ELSE {c \in UNION {Children(graph, x) : x \in Reach(graph, a, path, i - 1)} :
             is_boundary(graph.nodes[c]) /\ graph.nodes[c].name = path[i]}

\* the result is the error of segment i
NoPartition(i) ==
    /\ ~last.res.ok
    /\ last.res.err =
          [cat |-> "Definitions",
           desc |-> <<last.path[i], " does not match any partitions">>]

\* C11: find_boundary(from, path) returns the boundary reached from `from`
\* by following, segment by segment, a child boundary of that name, and the
\* Definitions error "<segment> does not match any partitions" at the first
\* segment for which the boundary reached has no child boundary of that
\* name; type and impl children do not match, the empty path returns
\* `from`, and the graph is the same after the call.
FindBoundaryWalks ==
    Found =>
        LET g == last.pre.graph
            R(i) == Reach(g, last.from, last.path, i)
            n == Len(last.path)
        IN  /\ parts = Some(last.pre)
            /\ last.res.ok => last.res.val \in R(n)
            /\ ~last.res.ok =>
                  \E i \in 1..n :
                      /\ NoPartition(i)
                      /\ \E x \in R(i - 1) :
                            \A c \in Children(g, x) :
                                ~(is_boundary(g.nodes[c]) /\ g.nodes[c].name = last.path[i])
            /\ last.path = <<>> => (last.res.ok /\ last.res.val = last.from)
            /\ (\A i \in 0..n : Cardinality(R(i)) <= 1) =>
                  IF R(n) # {}
                  THEN last.res.ok /\ R(n) = {last.res.val}
                  ELSE NoPartition(Min({i \in 1..n : R(i) = {}}))

\* a path of two segments failed at its second segment, the boundary reached
\* holding a type or impl of that name
SegmentNamesItem ==
    /\ Found
    /\ Len(last.path) = 2
    /\ NoPartition(2)
    /\ \E x \in Reach(last.pre.graph, last.from, last.path, 1) :
          \E c \in Children(last.pre.graph, x) \cap ItemNodes(last.pre.graph) :
              last.pre.graph.nodes[c].name = last.path[2]


(* ---------------------------------------------------------------------- *)
(* is_valid_part_name on its own: the names are the strings of at most     *)
(* MaxLen characters over NameChars.                                       *)
(* ---------------------------------------------------------------------- *)
MaxLen == 3

\* a character outside ASCII, as one character of a name
Earth == "U+1F30F"

NameChars == {"a", "Z", "7", "_", "-", " ", Earth}

RECURSIVE Names(_)
Names(n) ==
    IF n = 0 THEN {<<>>}
    ELSE Names(n - 1) \cup {Append(s, c) : s \in Names(n - 1), c \in NameChars}

InitName ==
    /\ parts = None
    /\ last \in {[call |-> "name", name |-> n] : n \in Names(MaxLen)}
    /\ hist = NoHist

IsValidPartName ==
    /\ last.call = "name"
    /\ last' = [call |-> "is_valid_part_name", name |-> last.name,
                res |-> is_valid_part_name(last.name)]
    /\ UNCHANGED <<parts, hist>>

NextName == IsValidPartName

SpecName == InitName /\ [][NextName]_vars

(* ---------------------------------------------------------------------- *)
(* C12                                                                     *)
(* ---------------------------------------------------------------------- *)
Validated == last.call = "is_valid_part_name"

FirstOk(c) == c = "_" \/ c \in AsciiAlphabetic

LaterOk(c) == c = "_" \/ c = "-" \/ c \in AsciiAlphabetic \/ c \in AsciiDigit

\* the partition-name rule
ValidName(name) ==
    /\ name # <<>>
    /\ FirstOk(name[1])
    /\ \A i \in 2..Len(name) : LaterOk(name[i])

\* C12: is_valid_part_name accepts a name exactly when it is non-empty, its
\* first character is '_' or an ASCII letter and every later character is
\* '_', '-' or ASCII alphanumeric; otherwise it returns one Definitions
\* error, chosen in this order: empty name, invalid first character ("must
\* start with"), invalid later character ("contains a character outside of").
PartNameRule ==
    Validated =>
        /\ last.res.ok <=> ValidName(last.name)
        /\ ~last.res.ok =>
              /\ last.res.err.cat = "Definitions"
              /\ last.res.err.desc =
                    IF last.name = <<>>
                    THEN <<"partition boundary names cannot be empty">>
                    ELSE IF ~FirstOk(last.name[1])
                         THEN <<"partition name '", last.name,
                                "' is invalid, must start with _,a-z,A-Z">>
                         ELSE <<"partition name '", last.name,
                                "' is invalid, it contains a character outside of _,-,a-z,A-Z,0-9">>

\* a name whose first character and a later character are both invalid was
\* refused for its first character
BothInvalid ==
    /\ Validated
    /\ Len(last.name) >= 2
    /\ ~FirstOk(last.name[1])
    /\ \E i \in 2..Len(last.name) : ~LaterOk(last.name[i])
    /\ ~last.res.ok
    /\ last.res.err.desc[3] = "' is invalid, must start with _,a-z,A-Z"


(* ---------------------------------------------------------------------- *)
(* C13                                                                     *)
(* ---------------------------------------------------------------------- *)
\* the Partitions value a call leaves, whether it succeeded or failed
currentParts == IF Called THEN last.res.self ELSE parts[1]

Roots(p) == {p.root, p.shell, p.plugins}

\* the name get_or_create_boundary_path gives segment i of entry k
SegmentName(k, i) == unwrap_or_default(to_str(last.fsmap[k].p[i]))

\* <<entry, segment>> of the path segments of the latest call that break the
\* partition-name rule
InvalidSegments ==
    {s \in UNION {{<<k, i>> : i \in 1..Len(last.fsmap[k].p)} : k \in EntryIdx} :
        ~ValidName(SegmentName(s[1], s[2]))}

\* the first of them in the order the call goes through the paths
FirstInvalid ==
    CHOOSE s \in InvalidSegments :
        \A t \in InvalidSegments : s[1] < t[1] \/ (s[1] = t[1] /\ s[2] <= t[2])

\* the number of nodes the graph holds when the entries before k are through
NodesBefore(k) ==
    Len(phase1(last.pre, SubSeq(last.fsmap, 1, k - 1)).st.self.graph.nodes)

\* the call ended with a partition-name error
PartNameError == Called /\ ~last.res.ok /\ last.res.err.desc[1] \in PartNameErrors

\* C13: every boundary node other than the three roots carries a name that
\* satisfies the partition-name rule, after successful and failed calls; a
\* call with a path holding an invalid segment fails in phase 1, and when it
\* fails on that segment it has created no node for it nor for a later
\* segment of the path: the nodes created for the path are boundaries for
\* the segments before it.
ValidBoundaryNames ==
    /\ \A n \in BoundaryNodes(current) \ Roots(currentParts) :
          ValidName(current.nodes[n].name)
    /\ (Called /\ InvalidSegments # {}) =>
          /\ ~last.res.ok
          /\ last.res.phase = 1
          /\ PartNameError =>
                LET k == FirstInvalid[1]
                    i == FirstInvalid[2]
                    made == (NodesBefore(k) + 1)..Len(post.nodes)
                IN  /\ last.res.err = is_valid_part_name(SegmentName(k, i)).err
                    /\ Cardinality(made) <= i - 1
                    /\ \A x \in made :
                          /\ is_boundary(post.nodes[x])
                          /\ \E j \in 1..(i - 1) : post.nodes[x].name = SegmentName(k, j)
    /\ PartNameError => InvalidSegments # {}

\* a call created the boundary of the first segment of a path, failed on the
\* invalid second segment and created nothing for the valid third segment
InvalidMiddleSegment ==
    /\ PartNameError
    /\ InvalidSegments # {}
    /\ FirstInvalid[2] = 2
    /\ Len(last.fsmap[FirstInvalid[1]].p) = 3
    /\ ValidName(SegmentName(FirstInvalid[1], 3))
    /\ Len(post.nodes) = NodesBefore(FirstInvalid[1]) + 1
    /\ \A x \in Created : post.nodes[x].name # SegmentName(FirstInvalid[1], 3)


(* ---------------------------------------------------------------------- *)
(* C14                                                                     *)
(* ---------------------------------------------------------------------- *)
\* the latest call failed in phase 2 or in phase 3
FailedLate == Called /\ ~last.res.ok /\ last.res.phase \in {2, 3}

\* the graph as phase 1 of the latest call left it
Phase1Graph == phase1(last.pre, last.fsmap).st.self.graph

\* g holds every node of h under the same identifier, kind and name, and
\* every edge of h
Contains(g, h) ==
    /\ Len(g.nodes) >= Len(h.nodes)
    /\ \A n \in 1..Len(h.nodes) :
          g.nodes[n].kind = h.nodes[n].kind /\ g.nodes[n].name = h.nodes[n].name
    /\ Range(h.edges) \subseteq Range(g.edges)

\* the exports a boundary had before the latest call
PreExports(b) == IF b <= Len(pre.nodes) THEN Range(pre.nodes[b].exports) ELSE {}

\* the place in ord of the boundary whose export names phase 2 failed on
FailedExport ==
    Min({i \in 1..Len(last.ord) : \E e \in Unresolved : e[1] = last.ord[i]})

\* an import that phase 3 cannot resolve from b
Unresolvable(b, imp) ==
    \/ ~find_boundary(last.res.self, b, imp.path).ok
    \/ ~glob_new(imp.glob).ok

\* the place in the buffered imports of the file phase 3 failed on
FailedImport ==
    Min({i \in 1..Len(ImportsCol) :
            \E imp \in Range(ImportsCol[i].imports) :
                Unresolvable(ImportsCol[i].bnd, imp)})

\* the exports of b are the ones phase 2 commits for it
Committed(b) ==
    /\ StrictlyAscending(post.nodes[b].exports)
    /\ Range(post.nodes[b].exports) = PreExports(b) \cup Resolved(b)

\* the nodes of the buffered entry c hold the imports phase 3 commits
ImportsCommitted(c) ==
    \A j \in 1..Len(c.nodes) :
        /\ StrictlyAscending(post.nodes[c.nodes[j]].imports)
        /\ Range(post.nodes[c.nodes[j]].imports) =
              UNION {Matches(c.bnd, imp) : imp \in Range(c.imports)}

\* the Partitions value the failed call held when it returned keeps what
\* phase 1 created and what the earlier iterations of phases 2 and 3 stored
KeptInside ==
    /\ Contains(post, Phase1Graph)
    /\ Len(post.nodes) = Len(Phase1Graph.nodes)
    /\ post.edges = Phase1Graph.edges
    /\ last.res.phase = 2 =>
          \A i \in 1..(FailedExport - 1) : Committed(last.ord[i])
    /\ last.res.phase = 3 =>
          /\ \A b \in ExportingBoundaries : Committed(b)
          /\ \A i \in 1..(FailedImport - 1) : ImportsCommitted(ImportsCol[i])

\* C14 as stated: when extend_root fails in phase 2 or 3, the caller is left
\* with a graph that still contains every node and edge created in phase 1
\* and every exports or imports list committed in the earlier iterations.
PartialGraphLeftToCaller ==
    FailedLate =>
        /\ parts # None
        /\ Contains(held, Phase1Graph)

\* C14, amended: when extend_root fails in phase 2 or 3 nothing is rolled
\* back inside the call: the Partitions value it holds at the return keeps
\* every node and edge of phase 1 and every list the earlier iterations of
\* phases 2 and 3 stored; but the call took that value by value and returns
\* only the error, so the caller is left with no graph.
NothingRolledBack ==
    FailedLate =>
        /\ parts = None
        /\ KeptInside

\* phase 3 failed on its second file after phase 2 had stored an exports list
\* and the first iteration of phase 3 a non-empty imports list
FailedAfterCommits ==
    /\ FailedLate
    /\ last.res.phase = 3
    /\ FailedImport = 2
    /\ \E b \in ExportingBoundaries : post.nodes[b].exports # <<>>
    /\ \E n \in Range(ImportsCol[1].nodes) : post.nodes[n].imports # <<>>


(* ---------------------------------------------------------------------- *)
(* C15                                                                     *)
(* ---------------------------------------------------------------------- *)
\* the exports or imports list of a node
ListOf(node) == IF is_boundary(node) THEN node.exports ELSE node.imports

\* no imports list differs from what it was before the latest call, the
\* nodes the call created holding the empty list
NoImportsSet ==
    \A n \in ItemNodes(post) :
        post.nodes[n].imports =
            IF n <= Len(pre.nodes) THEN pre.nodes[n].imports ELSE EMPTY

\* no exports list differs from what it was before the latest call
NoExportsSet ==
    \A n \in BoundaryNodes(post) :
        post.nodes[n].exports =
            IF n <= Len(pre.nodes) THEN pre.nodes[n].exports ELSE EMPTY

\* C15: the phases run in order and the first failure stops the call: when
\* phase 1 fails the call has changed no exports list and no imports list;
\* when phase 2 fails (on an unresolved export name) it has set no imports
\* list, every node it created holding the empty list, and it has stored
\* nothing for the boundary it failed on nor for the boundaries after it;
\* when phase 3 fails, phase 2 is through and the files after the failing
\* one have their imports unset.
PhasesInOrder ==
    (Called /\ ~last.res.ok) =>
        /\ last.res.phase \in {1, 2, 3}
        /\ last.res.phase = 1 => (NoExportsSet /\ NoImportsSet)
        /\ last.res.phase = 2 =>
              /\ Unresolved # {}
              /\ NoImportsSet
              /\ \A i \in FailedExport..Len(last.ord) :
                    Range(post.nodes[last.ord[i]].exports) = PreExports(last.ord[i])
        /\ last.res.phase = 3 =>
              /\ Unresolved = {}
              /\ \A b \in ExportingBoundaries : Committed(b)
              /\ \A i \in FailedImport..Len(ImportsCol) :
                    \A n \in Range(ImportsCol[i].nodes) : post.nodes[n].imports = EMPTY

\* phase 2 failed while phase 1 had buffered an import that matches children
\* of its boundary
ImportsLeftUnset ==
    /\ Called
    /\ ~last.res.ok
    /\ last.res.phase = 2
    /\ \E c \in Range(ImportsCol) : \E imp \in Range(c.imports) :
          /\ ~Unresolvable(c.bnd, imp)
          /\ Matches(c.bnd, imp) # {}


(* ---------------------------------------------------------------------- *)
(* C16                                                                     *)
(* ---------------------------------------------------------------------- *)
\* the edges that lead to n, by their place in the edge list
InEdges(graph, n) == {i \in 1..Len(graph.edges) : graph.edges[i][2] = n}

\* the source of the one edge that leads to n
Parent(graph, n) == graph.edges[CHOOSE i \in InEdges(graph, n) : TRUE][1]

\* following parents from n reaches root within k steps
RECURSIVE ReachesRoot(_, _, _, _)
ReachesRoot(graph, root, n, k) ==
    \/ n = root
    \/ /\ k > 0
       /\ InEdges(graph, n) # {}
       /\ ReachesRoot(graph, root, Parent(graph, n), k - 1)

\* the number of edges between root and n
RECURSIVE Depth(_, _, _)
Depth(graph, root, n) ==
    IF n = root THEN 0 ELSE 1 + Depth(graph, root, Parent(graph, n))

\* C16: the containment edges form a forest: every node other than root,
\* shell and plugins has exactly one incoming edge, whose source is a
\* boundary, and following parents from it reaches root without a cycle;
\* root, shell and plugins have no incoming edge.
ContainmentForest ==
    /\ \A n \in Roots(currentParts) : InEdges(current, n) = {}
    /\ \A n \in (1..Len(current.nodes)) \ Roots(currentParts) :
          /\ Cardinality(InEdges(current, n)) = 1
          /\ is_boundary(current.nodes[Parent(current, n)])
          /\ ReachesRoot(current, currentParts.root, n, Len(current.nodes))

\* after two calls the graph holds a type or impl three edges below root and
\* a boundary with at least three children
DeepItem ==
    /\ Succeeded
    /\ Len(pre.nodes) > 3
    /\ \E n \in ItemNodes(post) : Depth(post, last.res.self.root, n) = 3
    /\ \E b \in BoundaryNodes(post) : Cardinality(Children(post, b)) >= 3


(* ---------------------------------------------------------------------- *)
(* C17                                                                     *)
(* ---------------------------------------------------------------------- *)
\* s is the beginning of t
IsPrefix(s, t) == Len(s) <= Len(t) /\ SubSeq(t, 1, Len(s)) = s

\* C17: a call, successful or failed, only adds to the graph: every node
\* present before it is present after it under the same identifier, kind
\* and name, every edge present before is present after; root, shell and
\* plugins stay the same nodes with the same names.
OnlyGrows ==
    Called =>
        /\ Contains(post, pre)
        /\ IsPrefix(pre.edges, post.edges)
        /\ last.res.self.root = last.pre.root
        /\ last.res.self.shell = last.pre.shell
        /\ last.res.self.plugins = last.pre.plugins
        /\ eq_boundary(post.nodes[last.res.self.root], RootName)
        /\ eq_boundary(post.nodes[last.res.self.shell], ShellName)
        /\ eq_boundary(post.nodes[last.res.self.plugins], PluginsName)

\* a failed call had added nodes to a graph of earlier calls, whose lists it
\* had changed
FailedCallGrew ==
    /\ Called
    /\ ~last.res.ok
    /\ Len(pre.edges) >= 2
    /\ Created # {}
    /\ \E n \in 1..Len(pre.nodes) : post.nodes[n] # pre.nodes[n]


(* ---------------------------------------------------------------------- *)
(* C18                                                                     *)
(* ---------------------------------------------------------------------- *)
Constructed == last.call = "new"

\* C18: Partitions::new() yields a graph of exactly three nodes, all
\* boundaries, named <root>, <shell> and <plugins>, each with an empty
\* exports list, and no edges.
NewGraph ==
    Constructed =>
        /\ parts # None
        /\ Len(held.nodes) = 3
        /\ Cardinality(Roots(parts[1])) = 3
        /\ Roots(parts[1]) = 1..3
        /\ held.nodes[parts[1].root] =
              [kind |-> "Boundary", name |-> <<"<", "r", "o", "o", "t", ">">>,
               exports |-> <<>>]
        /\ held.nodes[parts[1].shell] =
              [kind |-> "Boundary", name |-> <<"<", "s", "h", "e", "l", "l", ">">>,
               exports |-> <<>>]
        /\ held.nodes[parts[1].plugins] =
              [kind |-> "Boundary",
               name |-> <<"<", "p", "l", "u", "g", "i", "n", "s", ">">>,
               exports |-> <<>>]
        /\ held.edges = <<>>

\* the caller holds a Partitions that new() has just built
FreshPartitions ==
    /\ Constructed
    /\ parts # None
    /\ BoundaryNodes(held) = 1..Len(held.nodes)
    /\ ItemNodes(held) = {}


(* ---------------------------------------------------------------------- *)
(* C19                                                                     *)
(* ---------------------------------------------------------------------- *)
\* the batch of the latest call names no path segment and no file
EmptyBatch ==
    /\ Called
    /\ \A k \in EntryIdx : last.fsmap[k].p = <<>> /\ last.fsmap[k].files = <<>>

\* C19: extend_root with the empty map, or with the empty path mapped to no
\* files, succeeds on every reachable graph and returns it with the same
\* nodes, edges, exports and imports; no name is validated.
EmptyBatchNoOp ==
    EmptyBatch =>
        /\ last.res.ok
        /\ last.res.self = last.pre
        /\ parts = Some(last.pre)

\* the empty path mapped to no files was given to a graph that holds
\* exports and imports
EmptyPathOnBuiltGraph ==
    /\ EmptyBatch
    /\ Len(last.fsmap) = 1
    /\ \E b \in BoundaryNodes(pre) : pre.nodes[b].exports # <<>>
    /\ \E n \in ItemNodes(pre) : pre.nodes[n].imports # <<>>


(* ---------------------------------------------------------------------- *)
(* C20                                                                     *)
(* ---------------------------------------------------------------------- *)
\* the export names a file carries
ExportsOf(f) ==
    UNION {Range(f.directives[j].exports) :
              j \in {n \in 1..Len(f.directives) : f.directives[n].d = "Export"}}

\* the names a file declares, types and impls
DeclaredIn(f) == Range(f.types) \cup Range(f.impls)

\* the boundary phase 1 of the latest call resolved the path of entry k to
EntryBoundary(k) ==
    get_or_create_boundary_path(
        phase1(last.pre, SubSeq(last.fsmap, 1, k - 1)).st.self,
        last.fsmap[k].p, last.pre.root).val

\* <<entry, exporting file, declaring file, name>>: a file of the entry
\* exports a name that another file of the entry declares
CrossFileExports ==
    {t \in UNION {UNION {{<<k, i, j, e>> : j \in FileIdx(k),
                                           e \in ExportsOf(last.fsmap[k].files[i])} :
                         i \in FileIdx(k)} :
                  k \in EntryIdx} :
        t[2] # t[3] /\ t[4] \in DeclaredIn(last.fsmap[t[1]].files[t[3]])}

\* C20: export names are resolved when the structure of the whole batch
\* exists: a name exported by one file of a path and declared by another
\* file of that path in the batch resolves, whichever file comes first; a
\* batch whose export names all resolve does not fail in phase 2; and after
\* a successful call the exports of the path's boundary hold an item for
\* every export name of every file of the path.
ExportsAfterStructure ==
    /\ Phase1Done =>
          /\ \A t \in CrossFileExports :
                /\ ItemsNamed(post, EntryBoundary(t[1]), t[4]) # {}
                /\ <<EntryBoundary(t[1]), t[4]>> \notin Unresolved
          /\ Unresolved = {} => (last.res.ok \/ last.res.phase = 3)
    /\ Succeeded =>
          \A k \in EntryIdx : \A i \in FileIdx(k) :
              \A e \in ExportsOf(last.fsmap[k].files[i]) :
                  \E x \in Range(post.nodes[EntryBoundary(k)].exports) :
                      /\ x \in Children(post, EntryBoundary(k))
                      /\ post.nodes[x].name = e

\* a file exported a name that only a later file of the path declares, a
\* second file of the path exported another name, and both are exported
ExportBeforeDeclaration ==
    /\ Succeeded
    /\ \E t \in CrossFileExports :
          /\ t[2] < t[3]
          /\ \A j \in 1..t[2] : t[4] \notin DeclaredIn(last.fsmap[t[1]].files[j])
          /\ ItemsNamed(pre, EntryBoundary(t[1]), t[4]) = {}
          /\ \E i \in FileIdx(t[1]) :
                /\ i # t[2]
                /\ ExportsOf(last.fsmap[t[1]].files[i]) \ {t[4]} # {}
          /\ Len(post.nodes[EntryBoundary(t[1])].exports) >= 2


(* ---------------------------------------------------------------------- *)
(* C21                                                                     *)
(* ---------------------------------------------------------------------- *)
\* the nodes on the way from n up to its root, n left out
RECURSIVE Ancestors(_, _)
Ancestors(graph, n) ==
    IF InEdges(graph, n) = {} THEN {}
    ELSE {Parent(graph, n)} \cup Ancestors(graph, Parent(graph, n))

\* C21: every identifier in the imports list of a type or impl node is a
\* proper descendant of the node's parent boundary: a direct child of that
\* boundary or of a boundary below it; the parent boundary itself, its
\* ancestors and the nodes of partitions beside it never appear.
ImportsBelowParent ==
    \A n \in ItemNodes(current) :
        \A x \in Range(current.nodes[n].imports) :
            /\ x \in 1..Len(current.nodes)
            /\ Parent(current, n) \in Ancestors(current, x)
            /\ is_boundary(current.nodes[Parent(current, x)])

\* a node whose parent boundary lies below root imports a child of a boundary
\* below its parent
ImportsFromBelow ==
    /\ Succeeded
    /\ \E n \in Created \cap ItemNodes(post) :
          /\ \E x \in Range(post.nodes[n].imports) :
                Parent(post, x) # Parent(post, n)
          /\ \E c \in Children(post, Parent(post, n)) \cap BoundaryNodes(post) :
                Children(post, c) # {}
          /\ Parent(post, n) \notin Roots(last.res.self)


(* ---------------------------------------------------------------------- *)
(* C22                                                                     *)
(* ---------------------------------------------------------------------- *)
\* the file declares no type and no impl
DeclaresNothing(f) == f.types = <<>> /\ f.impls = <<>>

\* the file map without the import directives of the files that declare
\* nothing
StripIdleImports(fsmap) ==
    [k \in 1..Len(fsmap) |->
        [fsmap[k] EXCEPT !.files =
            [i \in 1..Len(fsmap[k].files) |->
                IF DeclaresNothing(fsmap[k].files[i])
                THEN [fsmap[k].files[i] EXCEPT !.directives =
                         SelectSeq(@, LAMBDA d : d.d # "Import")]
                ELSE fsmap[k].files[i]]]]

\* C22: the imports of a file that declares no type and no impl are never
\* resolved: the call returns what it returns without those import
\* directives, whatever their paths and globs are; phase 1 buffers nothing
\* for such a file, and a batch whose imports all sit in such files does not
\* fail in phase 3 and sets no imports list.
IdleImportsIgnored ==
    Called =>
        /\ last.res = extend_root(last.pre, StripIdleImports(last.fsmap), last.ord)
        /\ Phase1Done => Len(ImportsCol) = Cardinality(Importing)
        /\ Importing = {} =>
              /\ NoImportsSet
              /\ ~last.res.ok => last.res.phase # 3

\* a call succeeded with a file that declares nothing and imports, with a
\* malformed glob, from a path that names no boundary
IdleImportUnresolvable ==
    /\ Succeeded
    /\ \E k \in EntryIdx : \E i \in FileIdx(k) :
          /\ DeclaresNothing(last.fsmap[k].files[i])
          /\ \E imp \in ImportsOf(last.fsmap[k].files[i]) :
                /\ ~find_boundary(last.res.self, EntryBoundary(k), imp.path).ok
                /\ ~glob_new(imp.glob).ok


(* ---------------------------------------------------------------------- *)
(* C23                                                                     *)
(* ---------------------------------------------------------------------- *)
\* C23: a call never changes the imports list of a type or impl node that an
\* earlier call created: the list stays what the creating call stored, also
\* when the call adds children that the globs of the node's file match under
\* the imported boundary.
ImportsFrozen ==
    Called =>
        \A n \in ItemNodes(pre) : post.nodes[n].imports = pre.nodes[n].imports

\* a successful call added, beside a node that an earlier node imports, a
\* child of the same name, which any glob that matched the one matches; the
\* earlier node does not import it
NewMatchNotImported ==
    /\ Succeeded
    /\ \E n \in ItemNodes(pre) : \E x \in Range(pre.nodes[n].imports) :
          \E y \in Created :
              /\ Parent(post, y) = Parent(post, x)
              /\ post.nodes[y].name = post.nodes[x].name
              /\ y \notin Range(post.nodes[n].imports)


(* ---------------------------------------------------------------------- *)
(* C24                                                                     *)
(* ---------------------------------------------------------------------- *)
\* the export names the latest call buffered for b
ExportNames(b) == {e[2] : e \in {x \in Buffered : x[1] = b}}

\* C24: each export name contributes exactly one identifier to the exports
\* of its boundary: of the types and impls under the boundary that carry the
\* name one is in the list after the call and the call leaves the others as
\* they were, outside the list when they were outside it; so when a type and
\* an impl carry the name only one of them is added.
OneIdentifierPerName ==
    Succeeded =>
        \A b \in ExportingBoundaries :
            /\ \A e \in ExportNames(b) :
                  \E x \in ItemsNamed(post, b, e) :
                      /\ x \in Range(post.nodes[b].exports)
                      /\ \A y \in ItemsNamed(post, b, e) \ {x} :
                            y \in Range(post.nodes[b].exports) <=> y \in PreExports(b)
            /\ Cardinality(Range(post.nodes[b].exports) \ PreExports(b))
                  <= Cardinality(ExportNames(b))

\* a boundary holds a type and an impl of an exported name, and one of the
\* two is in its exports
OneOfTwoExported ==
    /\ Succeeded
    /\ \E b \in ExportingBoundaries : \E e \in ExportNames(b) :
          \E t, i \in ItemsNamed(post, b, e) :
              /\ is_type(post.nodes[t])
              /\ is_impl(post.nodes[i])
              /\ {t, i} \cap Created # {}
              /\ Cardinality({t, i} \cap Range(post.nodes[b].exports)) = 1


====
